---------------------------- MODULE Spec2Model ----------------------------
(***************************************************************************)
(* Model of src/testcase_reporting_views.py (class TestcaseReporting):     *)
(* the saved-view store kept as JSON files under test_results_folder, and  *)
(* the report assembler get_test_case_data.                                *)
(*                                                                         *)
(* Python strings are sequences of one-character strings, so that strip,   *)
(* split, capitalize and os.path.join are computed as Python computes      *)
(* them.  Python dicts are functions; a dict whose iteration order matters *)
(* (a hit's _source) is a sequence of <<key, value>> pairs.                *)
(***************************************************************************)
EXTENDS Integers, Sequences, FiniteSets, TLC

VARIABLES dirs, files, index, last

vars == <<dirs, files, index, last>>

(***************************************************************************)
(* Python values                                                           *)
(***************************************************************************)
PyStr(s) == [type |-> "str", val |-> s]

PyNone == [type |-> "NoneType", val |-> <<>>]

PyDict(pairs) == [type |-> "dict", val |-> pairs]

is_str(v) == v.type = "str"

(***************************************************************************)
(* str methods                                                             *)
(***************************************************************************)
Whitespace == {" "}

LowerCase == <<"a","b","c","d","e","f","g","h","i","j","k","l","m",
               "n","o","p","q","r","s","t","u","v","w","x","y","z">>

UpperCase == <<"A","B","C","D","E","F","G","H","I","J","K","L","M",
               "N","O","P","Q","R","S","T","U","V","W","X","Y","Z">>

upper_char(c) ==
    IF \E i \in 1..26 : LowerCase[i] = c
    THEN UpperCase[CHOOSE i \in 1..26 : LowerCase[i] = c]
    ELSE c

lower_char(c) ==
    IF \E i \in 1..26 : UpperCase[i] = c
    THEN LowerCase[CHOOSE i \in 1..26 : UpperCase[i] = c]
    ELSE c

\* str.capitalize(): first character upper-cased, the rest lower-cased
capitalize(s) ==
    [i \in 1..Len(s) |-> IF i = 1 THEN upper_char(s[i]) ELSE lower_char(s[i])]

RECURSIVE lstrip_chars(_, _)
lstrip_chars(s, cs) ==
    IF s # <<>> /\ Head(s) \in cs THEN lstrip_chars(Tail(s), cs) ELSE s

RECURSIVE rstrip_chars(_, _)
rstrip_chars(s, cs) ==
    IF s # <<>> /\ s[Len(s)] \in cs
    THEN rstrip_chars(SubSeq(s, 1, Len(s) - 1), cs)
    ELSE s

\* str.strip(chars): trims every leading and trailing character of the set
strip_chars(s, cs) == rstrip_chars(lstrip_chars(s, cs), cs)

\* str.strip()
strip(s) == strip_chars(s, Whitespace)

\* str.find(sub) + 1: the first position of sub in s, 0 when absent
find(s, sub) ==
    LET hits == {i \in 1..(Len(s) - Len(sub) + 1) :
                    SubSeq(s, i, i + Len(sub) - 1) = sub}
    IN IF hits = {} THEN 0 ELSE CHOOSE i \in hits : \A j \in hits : i <= j

\* str.rfind(sub) + 1
rfind(s, sub) ==
    LET hits == {i \in 1..(Len(s) - Len(sub) + 1) :
                    SubSeq(s, i, i + Len(sub) - 1) = sub}
    IN IF hits = {} THEN 0 ELSE CHOOSE i \in hits : \A j \in hits : i >= j

\* s.split(sub)[0]
split_first(s, sub) ==
    LET i == find(s, sub) IN IF i = 0 THEN s ELSE SubSeq(s, 1, i - 1)

\* s.split(sub)[-1]
split_last(s, sub) ==
    LET i == rfind(s, sub)
    IN IF i = 0 THEN s ELSE SubSeq(s, i + Len(sub), Len(s))

(***************************************************************************)
(* os.path on the tree rooted at test_results_folder                       *)
(***************************************************************************)
SEP == <<"/">>

JSON_EXT == <<".", "j", "s", "o", "n">>

\* os.path.join(a, b)
os_path_join(a, b) ==
    IF b # <<>> /\ Head(b) = "/" THEN b
    ELSE IF a = <<>> \/ a[Len(a)] = "/" THEN a \o b
    ELSE a \o SEP \o b

\* The entry a path below test_results_folder names: its components.
RECURSIVE Components(_)
Components(p) ==
    IF p = <<>> THEN <<>>
    ELSE LET i == find(p, SEP)
         IN IF i = 0 THEN <<p>>
            ELSE (IF i = 1 THEN <<>> ELSE <<SubSeq(p, 1, i - 1)>>)
                 \o Components(SubSeq(p, i + 1, Len(p)))

\* os.path.join(self.test_results_folder, p), for a relative p
under_root(p) == Components(p)

Parent(P) == SubSeq(P, 1, Len(P) - 1)

IsPrefix(P, Q) == Len(P) <= Len(Q) /\ SubSeq(Q, 1, Len(P)) = P

isfile(fs, P) == P \in DOMAIN fs.files

isdir(fs, P) == P \in fs.dirs

exists(fs, P) == isfile(fs, P) \/ isdir(fs, P)

Prefixes(P) == {SubSeq(P, 1, n) : n \in 0..Len(P)}


(***************************************************************************)
(* The file system below test_results_folder: fs.dirs is the set of        *)
(* directories (<<>> is test_results_folder itself), fs.files maps each    *)
(* regular file to its content.  An entry is named by its components.      *)
(***************************************************************************)
EmptyFS == [dirs |-> {<<>>}, files |-> <<>>]

\* The name test_results_folder itself has in its parent directory.
ROOT_NAME == <<"r", "e", "s", "u", "l", "t", "s">>

Basename(P) == IF P = <<>> THEN ROOT_NAME ELSE P[Len(P)]

\* A function without the keys of ks
Without(f, ks) == [k \in DOMAIN f \ ks |-> f[k]]

\* os.makedirs(P): every missing directory on the way is created
makedirs(fs, P) ==
    IF \E Q \in Prefixes(P) : isfile(fs, Q) \/ isdir(fs, P)
    THEN [exc |-> "OSError", fs |-> fs]
    ELSE [exc |-> "none", fs |-> [fs EXCEPT !.dirs = @ \cup Prefixes(P)]]

\* open(P, "wb") followed by a write of content: the file is truncated
open_wb(fs, P, content) ==
    IF P = <<>> \/ ~isdir(fs, Parent(P)) \/ isdir(fs, P)
    THEN [exc |-> "IOError", fs |-> fs]
    ELSE [exc |-> "none",
          fs |-> [fs EXCEPT !.files = (P :> content) @@ @]]

\* The entries at or below P
Subtree(fs, P) ==
    [dirs |-> {Q \in fs.dirs : IsPrefix(P, Q)},
     files |-> {Q \in DOMAIN fs.files : IsPrefix(P, Q)}]

Rebase(Q, P, T) == T \o SubSeq(Q, Len(P) + 1, Len(Q))

\* os.rename(S, T) of an existing S onto a free name T whose parent is a
\* directory: the entry and everything below it change place
rename(fs, S, T) ==
    LET sub == Subtree(fs, S)
        kept == Without(fs.files, sub.files)
        moved == [Q \in {Rebase(F, S, T) : F \in sub.files} |->
                     fs.files[CHOOSE F \in sub.files : Rebase(F, S, T) = Q]]
    IN [dirs |-> (fs.dirs \ sub.dirs) \cup {Rebase(Q, S, T) : Q \in sub.dirs},
        files |-> moved @@ kept]

\* shutil.move(S, D) of an existing S (Python 2.7)
shutil_move(fs, S, D) ==
    IF isdir(fs, D)
    THEN IF S = D
         THEN [exc |-> "none", fs |-> fs]                \* _samefile: rename onto itself
         ELSE LET real_dst == Append(D, Basename(S))
              IN IF exists(fs, real_dst)
                 THEN [exc |-> "shutil.Error", fs |-> fs]
                 ELSE IF isdir(fs, S) /\ IsPrefix(S, real_dst)
                 THEN [exc |-> "shutil.Error", fs |-> fs]  \* _destinsrc
                 ELSE [exc |-> "none", fs |-> rename(fs, S, real_dst)]
    ELSE \* D is a regular file
         IF isfile(fs, S)
         THEN [exc |-> "none",
               fs |-> IF S = D THEN fs
                      ELSE rename([fs EXCEPT !.files = Without(@, {D})], S, D)]
         ELSE [exc |-> "OSError", fs |-> fs]             \* copytree onto a file

\* shutil.rmtree(P)
rmtree(fs, P) ==
    IF ~isdir(fs, P)
    THEN [exc |-> "OSError", fs |-> fs]
    ELSE LET sub == Subtree(fs, P)
         IN [exc |-> "none",
             fs |-> [dirs |-> fs.dirs \ sub.dirs,
                     files |-> Without(fs.files, sub.files)]]

(***************************************************************************)
(* json.dump / json.load of a filters mapping.  The text written to the    *)
(* file is kept as its sequence of JSON tokens.                            *)
(***************************************************************************)
Tok(kind, text) == [tok |-> kind, text |-> text]

RECURSIVE SortedKeys(_)
SortedKeys(ks) ==
    IF ks = {} THEN <<>>
    ELSE LET k == CHOOSE x \in ks : TRUE
         IN <<k>> \o SortedKeys(ks \ {k})

\* The token of a scalar
json_scalar(v) ==
    IF v.type = "str" THEN Tok("string", v.val)
    ELSE IF v.type = "NoneType" THEN Tok("null", <<>>)
    ELSE Tok("unserializable", <<>>)

RECURSIVE json_members(_, _)
json_members(d, keys) ==
    IF keys = <<>> THEN <<>>
    ELSE <<Tok("string", Head(keys)), Tok(":", <<>>), json_scalar(d[Head(keys)])>>
         \o (IF Len(keys) > 1 THEN <<Tok(",", <<>>)>> ELSE <<>>)
         \o json_members(d, Tail(keys))

\* json.dump(filters, fobj, indent=4)
json_dump(d) ==
    <<Tok("{", <<>>)>> \o json_members(d, SortedKeys(DOMAIN d)) \o <<Tok("}", <<>>)>>

json_value(t) ==
    IF t.tok = "string" THEN PyStr(t.text) ELSE PyNone

RECURSIVE json_parse_members(_, _)
json_parse_members(toks, i) ==
    IF toks[i].tok # "string" THEN <<>>
    ELSE (toks[i].text :> json_value(toks[i + 2]))
         @@ (IF toks[i + 3].tok = "," THEN json_parse_members(toks, i + 4) ELSE <<>>)

\* json.load(fobj)
json_load(toks) == json_parse_members(toks, 2)

(***************************************************************************)
(* The view store (TestcaseReporting, lines 312-452).  Each operation is   *)
(* an operator from the file system and its arguments to                   *)
(*   [exc, msg, named, fs, ret]:                                           *)
(* the exception that reaches the caller ("none" when it returns), which   *)
(* raise statement it came from, the keys its message names, the file      *)
(* system afterwards and the value returned.                               *)
(***************************************************************************)
NoRet == <<>>

Returns(fs, ret) ==
    [exc |-> "none", msg |-> "", named |-> {}, fs |-> fs, ret |-> ret]

Raises(exc, msg, named, fs) ==
    [exc |-> exc, msg |-> msg, named |-> named, fs |-> fs, ret |-> NoRet]

\* self.__save_view_structure
save_view_structure == {"folder", "view", "filters"}

\* dict.get(key, default)
dict_get(d, key, default) == IF key \in DOMAIN d THEN d[key] ELSE default

\* _validate_save_view_data with the two checks in the other order
validate_unrequired_first(data) ==
    LET missing_data == save_view_structure \ DOMAIN data
        unrequired_data == DOMAIN data \ save_view_structure
    IN IF unrequired_data # {}
       THEN [exc |-> "Exception", msg |-> "additional uneeded info",
             named |-> unrequired_data]
       ELSE IF missing_data # {}
       THEN [exc |-> "Exception", msg |-> "missing needed info", named |-> missing_data]
       ELSE [exc |-> "none", msg |-> "", named |-> {}]

validate_save_view_data(data) ==
    LET missing_data == save_view_structure \ DOMAIN data
        unrequired_data == DOMAIN data \ save_view_structure
    IN IF missing_data # {}
       THEN [exc |-> "Exception", msg |-> "missing needed info", named |-> missing_data]
       ELSE IF unrequired_data # {}
       THEN [exc |-> "Exception", msg |-> "additional uneeded info",
             named |-> unrequired_data]
       ELSE [exc |-> "none", msg |-> "", named |-> {}]

get_full_path(filter_data) ==
    LET folders == strip(filter_data["folder"])
        view_name == strip(filter_data["view"])
    IN under_root(os_path_join(folders, view_name \o JSON_EXT))

\* __save_test_results_view without the strip() of the view name
save_view_name_unstripped(fs, filter_data) ==
    LET folders == strip(dict_get(filter_data, "folder", <<>>))
        view_name == dict_get(filter_data, "view", <<>>)
        filters == dict_get(filter_data, "filters", <<>>)
        save_path == under_root(folders)
        made == IF folders # <<>> /\ ~exists(fs, save_path)
                THEN makedirs(fs, save_path)
                ELSE [exc |-> "none", fs |-> fs]
        full_path == under_root(os_path_join(folders, view_name \o JSON_EXT))
        written == open_wb(made.fs, full_path, json_dump(filters))
    IN IF made.exc # "none" THEN Raises(made.exc, "makedirs", {}, made.fs)
       ELSE IF written.exc # "none" THEN Raises(written.exc, "open", {}, written.fs)
       ELSE Returns(written.fs, filter_data)

save_test_results_view(fs, filter_data) ==
    LET folders == strip(dict_get(filter_data, "folder", <<>>))
        view_name == strip(dict_get(filter_data, "view", <<>>))
        filters == dict_get(filter_data, "filters", <<>>)
        save_path == under_root(folders)
        made == IF folders # <<>> /\ ~exists(fs, save_path)
                THEN makedirs(fs, save_path)
                ELSE [exc |-> "none", fs |-> fs]
        full_path == under_root(os_path_join(folders, view_name \o JSON_EXT))
        written == open_wb(made.fs, full_path, json_dump(filters))
    IN IF made.exc # "none" THEN Raises(made.exc, "makedirs", {}, made.fs)
       ELSE IF written.exc # "none" THEN Raises(written.exc, "open", {}, written.fs)
       ELSE Returns(written.fs, filter_data)

\* Lines 410-411: the message of the IOError is built from the names folders
\* and view_name, which create_test_results_view never binds; evaluating it
\* raises NameError before the IOError exists.
raise_duplicate_view(fs) == Raises("NameError", "folders is not defined", {}, fs)

create_test_results_view(fs, filter_data) ==
    LET valid == validate_save_view_data(filter_data)
    IN IF valid.exc # "none" THEN Raises(valid.exc, valid.msg, valid.named, fs)
       ELSE IF exists(fs, get_full_path(filter_data)) THEN raise_duplicate_view(fs)
       ELSE save_test_results_view(fs, filter_data)

update_test_results_view(fs, filter_data) ==
    LET valid == validate_save_view_data(filter_data)
    IN IF valid.exc # "none" THEN Raises(valid.exc, valid.msg, valid.named, fs)
       ELSE save_test_results_view(fs, filter_data)

read_view_data(fs, view, raise_except) ==
    IF view = <<>>
    THEN Raises("Exception", "No view name provided", {}, fs)
    ELSE LET path == under_root(view \o JSON_EXT)
         IN IF exists(fs, path) /\ ~isfile(fs, path)
            THEN IF raise_except
                 THEN Raises("Exception", "not present or a folder", {}, fs)
                 ELSE Returns(fs, <<>>)
            ELSE IF ~isfile(fs, path)
            THEN Raises("IOError", "open", {}, fs)
            ELSE Returns(fs, json_load(fs.files[path]))

delete_test_results_view(fs, path) ==
    LET P == under_root(path)
    IN IF isfile(fs, P)
       THEN Returns([fs EXCEPT !.files = Without(@, {P})], NoRet)
       ELSE LET r == rmtree(fs, P)
            IN IF r.exc # "none" THEN Raises(r.exc, "rmtree", {}, fs)
               ELSE Returns(r.fs, NoRet)

\* move_test_results_view taking src as the folder whenever src exists
move_folder_first(fs, src_path, dest_path) ==
    LET full_src_path == under_root(src_path)
        full_dest_path == under_root(dest_path)
        src_json == under_root(src_path \o JSON_EXT)
        src_is_a_file == isfile(fs, src_json)
        src_exists == exists(fs, full_src_path)
        dest_exists == exists(fs, full_dest_path)
    IN IF ~dest_exists
       THEN Raises("IOError", "Destination path does not exist", {}, fs)
       ELSE IF ~src_is_a_file /\ ~src_exists
       THEN Raises("IOError", "Source path does not exist", {}, fs)
       ELSE LET m == shutil_move(fs, IF src_exists THEN full_src_path ELSE src_json,
                                 full_dest_path)
            IN IF m.exc # "none" THEN Raises(m.exc, "shutil.move", {}, fs)
               ELSE Returns(m.fs, NoRet)

move_test_results_view(fs, src_path, dest_path) ==
    LET full_src_path == under_root(src_path)
        full_dest_path == under_root(dest_path)
        src_json == under_root(src_path \o JSON_EXT)
        src_is_a_file == isfile(fs, src_json)
        src_exists == exists(fs, full_src_path)
        dest_exists == exists(fs, full_dest_path)
    IN IF ~dest_exists
       THEN Raises("IOError", "Destination path does not exist", {}, fs)
       ELSE IF ~src_is_a_file /\ ~src_exists
       THEN Raises("IOError", "Source path does not exist", {}, fs)
       ELSE LET m == shutil_move(fs, IF src_is_a_file THEN src_json ELSE full_src_path,
                                 full_dest_path)
            IN IF m.exc # "none" THEN Raises(m.exc, "shutil.move", {}, fs)
               ELSE Returns(m.fs, NoRet)

\* next(os.walk(path)): the sub-directories and files of one directory
get_available_views(fs, path) ==
    LET P == under_root(path)
    IN IF ~isdir(fs, P)
       THEN Raises("StopIteration", "os.walk", {}, fs)
       ELSE Returns(fs,
              [folders |-> {Q[Len(Q)] : Q \in {D \in fs.dirs : D # <<>> /\ Parent(D) = P}},
               views |-> {strip_chars(Q[Len(Q)], {".", "j", "s", "o", "n"}) :
                             Q \in {F \in DOMAIN fs.files : Parent(F) = P}}])

is_a_duplicate_view_available(fs, folders, view_name) ==
    LET path == os_path_join(folders, view_name)
        data == get_available_views(fs, path)
    IN IF data.exc # "none" THEN data
       ELSE IF "view" \notin DOMAIN data.ret
       THEN Raises("KeyError", "view", {}, fs)
       ELSE Returns(fs, view_name \in data.ret["view"])

(***************************************************************************)
(* Dates.  A date string is written as a two-digit day ordinal, which      *)
(* orders as the ISO form %Y-%m-%d does.                                   *)
(***************************************************************************)
Digits == <<"0", "1", "2", "3", "4", "5", "6", "7", "8", "9">>

\* datetime.now(), as a day ordinal
Today == 50

\* timedelta(30) of the default range
DefaultDays == 30

\* str(n) for 0 <= n <= 99, zero padded
strftime(n) == <<Digits[(n \div 10) + 1], Digits[(n % 10) + 1]>>

\* str(n) for 0 <= n <= 99
str_int(n) ==
    IF n < 10 THEN <<Digits[n + 1]>> ELSE <<Digits[(n \div 10) + 1], Digits[(n % 10) + 1]>>

digit_value(c) == (CHOOSE i \in 1..10 : Digits[i] = c) - 1

\* The search service's reading of a date string
parse_date(s) == 10 * digit_value(s[1]) + digit_value(s[2])

(***************************************************************************)
(* The search service (external): mapping introspection, the scrolled      *)
(* search and the aggregation search over the hits of index.  A hit's      *)
(* _source is a sequence of <<field, value>> pairs, in the order the       *)
(* parsed dict iterates.                                                   *)
(***************************************************************************)
Range(seq) == {seq[i] : i \in 1..Len(seq)}

\* source.get(key, default) / key in source, for a sequence of pairs
source_has(source, key) == \E i \in 1..Len(source) : source[i][1] = key

source_get(source, key, default) ==
    IF source_has(source, key)
    THEN source[CHOOSE i \in 1..Len(source) : source[i][1] = key][2]
    ELSE default

\* The range filter {"jobdate": {"gte": from_date, "lte": to_date}}; a null
\* bound does not constrain
in_range(source, range) ==
    \/ ~range.present
    \/ (~is_str(range.gte) /\ ~is_str(range.lte))
    \/ /\ source_has(source, "jobdate")
       /\ is_str(source_get(source, "jobdate", PyNone))
       /\ LET d == parse_date(source_get(source, "jobdate", PyNone).val)
          IN /\ (is_str(range.gte) => parse_date(range.gte.val) <= d)
             /\ (is_str(range.lte) => d <= parse_date(range.lte.val))

\* _source filtering: the included top-level fields, without the excluded
\* sub-fields job_attrs.job_attrs_kv and cust_attrs.cust_attrs_kv
RECURSIVE select_pairs(_, _)
select_pairs(pairs, keep) ==
    IF pairs = <<>> THEN <<>>
    ELSE (IF Head(pairs)[1] \in keep THEN <<Head(pairs)>> ELSE <<>>)
         \o select_pairs(Tail(pairs), keep)

RECURSIVE drop_pairs(_, _)
drop_pairs(pairs, drop) ==
    IF pairs = <<>> THEN <<>>
    ELSE (IF Head(pairs)[1] \in drop THEN <<>> ELSE <<Head(pairs)>>)
         \o drop_pairs(Tail(pairs), drop)

project_source(source, includes) ==
    LET kept == select_pairs(source, Range(includes))
    IN [i \in 1..Len(kept) |->
           IF kept[i][1] \in {"job_attrs", "cust_attrs"} /\ kept[i][2].type = "dict"
           THEN <<kept[i][1],
                  PyDict(drop_pairs(kept[i][2].val, {"job_attrs_kv", "cust_attrs_kv"}))>>
           ELSE kept[i]]

\* The hits of a query, each as {"_source": ...}
RECURSIVE es_hits(_, _)
es_hits(docs, query) ==
    IF docs = <<>> THEN <<>>
    ELSE (IF in_range(Head(docs), query.range)
          THEN <<[_source |-> project_source(Head(docs), query.includes)]>>
          ELSE <<>>)
         \o es_hits(Tail(docs), query)

\* Hits are delivered in pages of this many
ScrollSize == 1

\* ESScrolledSearch.search_index(query): the pages of the scroll
RECURSIVE es_pages(_)
es_pages(hits) ==
    IF hits = <<>> THEN <<>>
    ELSE IF Len(hits) <= ScrollSize THEN <<hits>>
    ELSE <<SubSeq(hits, 1, ScrollSize)>>
         \o es_pages(SubSeq(hits, ScrollSize + 1, Len(hits)))

\* The value a terms aggregation reads from a hit: a top-level field, or
\* job_attrs.<name>.raw
facet_value(source, facet_field) ==
    IF facet_field[1] = "top"
    THEN source_get(source, facet_field[2], PyNone)
    ELSE LET attrs == source_get(source, "job_attrs", PyDict(<<>>))
         IN IF attrs.type = "dict" THEN source_get(attrs.val, facet_field[2], PyNone)
            ELSE PyNone

RECURSIVE es_buckets(_, _)
es_buckets(keys, values) ==
    IF keys = {} THEN <<>>
    ELSE LET k == CHOOSE x \in keys : TRUE
         IN <<[key |-> k,
               doc_count |-> Cardinality({i \in 1..Len(values) : values[i] = k})]>>
            \o es_buckets(keys \ {k}, values)

\* Elasticsearch.search(body=query) of an aggregation query: per facet, one
\* bucket per distinct value among the matching hits
es_aggregations(docs, query) ==
    LET matching == SelectSeq(docs, LAMBDA d :
                       /\ in_range(d, query.range)
                       /\ (is_str(query.must_type) =>
                              /\ is_str(source_get(d, "type", PyNone))
                              /\ source_get(d, "type", PyNone).val = query.must_type.val))
    IN [facet \in DOMAIN query.aggs |->
           LET present == SelectSeq(matching, LAMBDA d :
                              is_str(facet_value(d, query.aggs[facet])))
               values == [i \in 1..Len(present) |->
                             facet_value(present[i], query.aggs[facet]).val]
           IN [buckets |-> es_buckets(Range(values), values)]]

(***************************************************************************)
(* The report assembler (TestcaseReporting, lines 58-310)                  *)
(***************************************************************************)
STR_NA == <<"N", "A">>

STR_ALL == <<"a", "l", "l">>

STR_CPT == <<"C", "P", "T">>

STR_L2ADD == <<"L", "2", "A", "D", "D">>

STR_CI == <<"_", "c", "i">>

STR_TESTCASE_RESULTS ==
    <<"T", "e", "s", "t", "c", "a", "s", "e", " ", "r", "e", "s", "u", "l", "t", "s">>

\* d[k] = v / d.pop(k) of a dict
dict_set(d, k, v) == (k :> v) @@ d

dict_pop(d, k) == Without(d, {k})

\* d.update(pairs)
RECURSIVE dict_update(_, _)
dict_update(d, pairs) ==
    IF pairs = <<>> THEN d
    ELSE dict_update(dict_set(d, Head(pairs)[1], Head(pairs)[2]), Tail(pairs))

\* list.index(x) + 1
list_index(l, x) == CHOOSE i \in 1..Len(l) : l[i] = x /\ \A j \in 1..(i - 1) : l[j] # x

\* list.remove(x)
list_remove(l, x) ==
    LET i == list_index(l, x) IN SubSeq(l, 1, i - 1) \o SubSeq(l, i + 1, Len(l))

\* _get_date_filters(data, final_dict): [exc, from_date, to_date, final_dict]
get_date_filters(data, final_dict) ==
    LET filter == dict_get(data, "filter", PyNone)
        done(fd, from_date, to_date) ==
            [exc |-> "none", from_date |-> from_date, to_date |-> to_date,
             final_dict |-> dict_set(dict_set(fd, "from_date", from_date),
                                     "to_date", to_date)]
        fails(exc) ==
            [exc |-> exc, from_date |-> PyNone, to_date |-> PyNone,
             final_dict |-> final_dict]
    IN IF filter = PyStr(<<"d", "a", "t", "e">>)
       THEN IF "to_date" \notin DOMAIN data \/ "from_date" \notin DOMAIN data
            THEN fails("KeyError")
            ELSE LET to_date == split_first(data["to_date"].val, <<"T">>)
                     from_date == split_first(data["from_date"].val, <<"T">>)
                 IN done(dict_set(final_dict, "filter",
                                  PyStr(from_date \o <<" ", "t", "o", " ">> \o to_date)),
                         PyStr(from_date), PyStr(to_date))
       ELSE IF filter = PyStr(<<"d", "a", "y", "s">>)
       THEN LET days == dict_get(data, "days", PyNone)
            IN IF days.type # "int"
               THEN fails("TypeError")                    \* int(None)
               ELSE done(dict_set(final_dict, "filter",
                                  PyStr(<<"L", "a", "s", "t", " ">> \o str_int(days.val)
                                        \o <<" ", "d", "a", "y", "s">>)),
                         PyStr(strftime(Today - days.val)), PyStr(strftime(Today)))
       ELSE IF filter = PyStr(STR_ALL)
       THEN done(dict_set(final_dict, "filter", PyStr(<<"A", "l", "l">>)), PyNone, PyNone)
       ELSE done(final_dict, PyStr(strftime(Today - DefaultDays)), PyStr(strftime(Today)))

\* _form_query_dict(from_date, to_date, fields_visible)
form_query_dict(from_date, to_date, fields_visible) ==
    LET truthy(v) == is_str(v) /\ v.val # <<>>
        both_date_ranges == truthy(from_date) /\ truthy(to_date)
    IN [range |-> [present |-> both_date_ranges, gte |-> from_date, lte |-> to_date],
        includes |-> fields_visible \o <<"job_attrs", "cust_attrs">>]

\* The query _get_aggregated_data builds (lines 62-94)
aggregation_query(from_date, to_date, type) ==
    [range |-> [present |-> TRUE, gte |-> from_date, lte |-> to_date],
     must_type |-> IF is_str(type) /\ type.val # <<>>
                   THEN (IF type.val = STR_CPT THEN PyStr(STR_L2ADD) ELSE type)
                   ELSE PyNone,
     aggs |-> [f \in {"jobstatus", "major", "minor", "production", "program_type",
                      "testgroup"} |->
                  IF f = "jobstatus" THEN <<"top", "status">> ELSE <<"job_attrs", f>>]]

\* Lines 111-117: the buckets of every facet as a value -> doc_count dict
RECURSIVE buckets_to_dict(_)
buckets_to_dict(buckets) ==
    IF buckets = <<>> THEN <<>>
    ELSE dict_set(buckets_to_dict(SubSeq(buckets, 1, Len(buckets) - 1)),
                  buckets[Len(buckets)].key, buckets[Len(buckets)].doc_count)

\* _get_aggregated_data, given the response out of the search service
get_aggregated_data(out) ==
    LET data == dict_get(out, "aggregations", <<>>)
    IN [key \in DOMAIN data |-> buckets_to_dict(data[key].buckets)]

\* Lines 225-229
fields_visible_base ==
    <<"job", "job_id", "testcase_name", "status", "type", "jobdate", "executiontime",
      "log_uri", "stage", "sut", "sut_wwid", "log", "os", "model", "hardware", "team",
      "spp_detail", "spp_status">>

NoAttrs == [present |-> FALSE, properties |-> <<>>]

\* Lines 233-238: job_attrs and cust_attrs of the mapping, None when absent.
\* The properties of each are kept as the sequence their keys() gives.
mapping_attrs(cirrus_map_data) ==
    IF "cirrus" \notin DOMAIN cirrus_map_data
    THEN [exc |-> "none", job_attrs |-> NoAttrs, cust_attrs |-> NoAttrs]
    ELSE IF "mappings" \notin DOMAIN cirrus_map_data["cirrus"]
    THEN [exc |-> "KeyError", job_attrs |-> NoAttrs, cust_attrs |-> NoAttrs]
    ELSE LET props == dict_get(cirrus_map_data["cirrus"]["mappings"]["testinfo"],
                               "properties", <<>>)
             attrs(name) == IF name \in DOMAIN props
                            THEN [present |-> TRUE,
                                  properties |-> props[name]["properties"]]
                            ELSE NoAttrs
         IN [exc |-> "none", job_attrs |-> attrs("job_attrs"),
             cust_attrs |-> attrs("cust_attrs")]

\* properties.pop(key, None), then properties.keys()
keys_without(properties, key) == SelectSeq(properties, LAMBDA k : k # key)

\* Lines 277-299: the row of one hit, [exc, row]
RECURSIVE overlay_fields(_, _, _)
overlay_fields(row_data, source, i) ==
    IF i > Len(source) THEN [exc |-> "none", row |-> row_data]
    ELSE LET field == source[i][1]
             value == source[i][2]
             copied == dict_set(row_data, field, value)
             fails == [exc |-> "AttributeError", row |-> copied]
         IN IF field \notin DOMAIN row_data
            THEN overlay_fields(row_data, source, i + 1)
            ELSE IF field = "stage"
            THEN IF ~is_str(value) THEN fails
                 ELSE overlay_fields(
                        dict_set(dict_pop(copied, "stage"), "stage_stdout",
                                 PyStr(split_first(value.val, STR_CI))),
                        source, i + 1)
            ELSE IF field = "log_uri"
            THEN IF ~is_str(value) THEN fails
                 ELSE overlay_fields(
                        dict_set(copied, "log_name", PyStr(split_last(value.val, SEP))),
                        source, i + 1)
            ELSE IF field = "status"
            THEN IF ~is_str(value) THEN fails
                 ELSE overlay_fields(
                        dict_set(dict_pop(dict_set(copied, "job",
                                                   PyStr(capitalize(value.val))),
                                          "status"),
                                 "stage_status", PyStr(capitalize(value.val))),
                        source, i + 1)
            ELSE IF field = "type"
            THEN overlay_fields(dict_set(dict_pop(copied, "type"), "test_type", value),
                                source, i + 1)
            ELSE overlay_fields(copied, source, i + 1)

row_of_hit(default_row_data, hit) ==
    LET source == hit["_source"]
        job_attr_data == source_get(source, "job_attrs", PyDict(<<>>))
        cust_attr_data == source_get(source, "cust_attrs", PyDict(<<>>))
        seeded == dict_update(dict_update(default_row_data, job_attr_data.val),
                              cust_attr_data.val)
    IN overlay_fields(seeded, source, 1)

\* Lines 273-302 over the hits delivered: [exc, rows], rows holding every
\* row appended to final_dict["testinfo"] before an exception, if any
RECURSIVE shape_rows(_, _, _)
shape_rows(default_row_data, hits, rows) ==
    IF hits = <<>> THEN [exc |-> "none", rows |-> rows]
    ELSE LET r == row_of_hit(default_row_data, Head(hits))
         IN IF r.exc # "none" THEN [exc |-> r.exc, rows |-> rows]
            ELSE shape_rows(default_row_data, Tail(hits), Append(rows, r.row))

RECURSIVE Flatten(_)
Flatten(pages) == IF pages = <<>> THEN <<>> ELSE Head(pages) \o Flatten(Tail(pages))

\* Lines 196-208
report_defaults(data) ==
    data @@
    [count |-> 0, testinfo |-> <<>>, job_attributes |-> <<>>, testattr |-> <<>>,
     job_attributes_col |-> <<>>, cirrus_attributes_col |-> <<>>, xyz |-> <<>>,
     testcase_attributes_col |-> <<>>,
     reporttype |-> dict_get(data, "reporttype", PyStr(STR_TESTCASE_RESULTS)),
     retain |-> data, view_data |-> <<>>]

\* Lines 210-217: the view name and the duplicate check of create mode
view_check(fs, data) ==
    IF "folders" \in DOMAIN data /\ "view_name" \notin DOMAIN data
    THEN Raises("NameError", "view_name referenced before assignment", {}, fs)
    ELSE IF "create_mode" \notin DOMAIN data THEN Returns(fs, FALSE)
    ELSE IF "folders" \notin DOMAIN data THEN Raises("KeyError", "folders", {}, fs)
    ELSE LET view_name == os_path_join(data["folders"].val, data["view_name"].val)
             dup == is_a_duplicate_view_available(fs, data["folders"].val, view_name)
         IN IF dup.exc # "none" THEN dup
            ELSE IF dup.ret
            THEN Raises("Exception", "View name provided is duplicate", {}, fs)
            ELSE Returns(fs, FALSE)

\* No payload: the request raised
NoPayload == <<>>

\* What the search service does during one request: the mapping it returns
\* (or that get_mapping raises), whether search_index and the aggregation
\* search raise, whether the aggregation response lacks "aggregations", and
\* which fetch of the scroll fails (0: none; n: the n-th fetch raises after
\* n - 1 pages were delivered).
NoEnv ==
    [mapping_raises |-> FALSE, mapping |-> <<>>, search_raises |-> FALSE,
     agg |-> "ok", scroll_fail |-> 0]

\* get_test_case_data(data) with the store fs and the hits docs, under the
\* service behaviour env: [exc, msg, payload, calls], calls being the
\* search-service calls made, in order
get_test_case_data(fs, docs, data, env) ==
    LET final0 == report_defaults(data)
        check == view_check(fs, data)
        dates == get_date_filters(data, final0)
        attrs == mapping_attrs(env.mapping)
        job_props == keys_without(attrs.job_attrs.properties, "job_attrs_kv")
        cust_props == keys_without(attrs.cust_attrs.properties, "cust_attrs_kv")
        fields1 == fields_visible_base
                   \o (IF attrs.job_attrs.present THEN job_props ELSE <<>>)
                   \o (IF attrs.cust_attrs.present THEN cust_props ELSE <<>>)
        final1 == [dates.final_dict EXCEPT
                     !["cirrus_attributes_col"] = fields_visible_base,
                     !["job_attributes_col"] =
                         IF attrs.job_attrs.present THEN job_props ELSE @,
                     !["testcase_attributes_col"] =
                         IF attrs.cust_attrs.present THEN cust_props ELSE @,
                     !["testattr"] = fields1]
        default_row_data == [key \in Range(fields1) |-> PyStr(STR_NA)]
        query_dict == form_query_dict(dates.from_date, dates.to_date, fields1)
        test_info_data == es_pages(es_hits(docs, query_dict))
        out == IF env.agg = "no aggregations" THEN <<>>
               ELSE [aggregations |->
                        es_aggregations(docs,
                            aggregation_query(dates.from_date, dates.to_date,
                                              dict_get(data, "type", PyNone)))]
        aggr_data == get_aggregated_data(out)
        ring_data == dict_set(dict_pop(aggr_data, "jobstatus"), "stage_status",
                              aggr_data["jobstatus"])
        \* lines 262-269; final_dict["testattr"] is the list fields_visible itself
        cols1 == [final1["cirrus_attributes_col"] EXCEPT
                     ![list_index(fields1, "stage")] = "stage_stdout"]
        fields2 == list_remove(fields1, "log_uri")
        fields3 == [fields2 EXCEPT ![list_index(fields2, "status")] = "stage_status"]
        cols2 == [cols1 EXCEPT ![list_index(fields2, "status")] = "stage_status"]
        cols3 == [cols2 EXCEPT ![list_index(fields3, "type")] = "test_type"]
        final2 == [final1 EXCEPT !["cirrus_attributes_col"] = cols3,
                                 !["testattr"] = fields3]
        delivered == IF env.scroll_fail = 0 \/ env.scroll_fail > Len(test_info_data) + 1
                     THEN test_info_data
                     ELSE SubSeq(test_info_data, 1, env.scroll_fail - 1)
        scroll_raises == env.scroll_fail # 0 /\ env.scroll_fail <= Len(test_info_data) + 1
        shaped == shape_rows(default_row_data, Flatten(delivered), <<>>)
        final3 == [final2 EXCEPT !["testinfo"] = shaped.rows]
        caught(fd, calls) ==
            [exc |-> "none", msg |-> "Fetch testcase results failed",
             payload |-> fd, calls |-> calls]
    IN IF check.exc # "none"
       THEN [exc |-> check.exc, msg |-> check.msg, payload |-> NoPayload, calls |-> <<>>]
       ELSE IF dates.exc # "none" THEN caught(final0, <<>>)
       ELSE IF env.mapping_raises \/ attrs.exc # "none"
       THEN caught(dates.final_dict, <<"get_mapping">>)
       ELSE IF env.search_raises
       THEN caught(final1, <<"get_mapping", "search_index">>)
       ELSE IF env.agg = "raises" \/ "jobstatus" \notin DOMAIN aggr_data
       THEN caught(final1, <<"get_mapping", "search_index", "search">>)
       ELSE IF shaped.exc # "none" \/ scroll_raises
       THEN caught(final3, <<"get_mapping", "search_index", "search">>)
       ELSE [exc |-> "none", msg |-> "",
             payload |-> dict_set(dict_set(final3, "count", Len(shaped.rows)),
                                  "ring_data", ring_data),
             calls |-> <<"get_mapping", "search_index", "search">>]

(***************************************************************************)
(* State.  dirs, files: the tree below test_results_folder.  index: the    *)
(* hits the search service holds, in the order it returns them.  last:     *)
(* the request being served, or the last one served and its outcome.       *)
(***************************************************************************)
FS == [dirs |-> dirs, files |-> files]

NoOp ==
    [op |-> "init", args |-> <<>>, exc |-> "none", msg |-> "", named |-> {},
     ret |-> NoRet, payload |-> NoPayload, calls |-> <<>>, env |-> NoEnv]

\* A view-store request was served with outcome r
Served(op, args, r) ==
    /\ dirs' = r.fs.dirs
    /\ files' = r.fs.files
    /\ last' = [op |-> op, args |-> args, exc |-> r.exc, msg |-> r.msg,
                named |-> r.named, ret |-> r.ret, payload |-> NoPayload,
                calls |-> <<>>, env |-> NoEnv]
    /\ UNCHANGED index

(***************************************************************************)
(* Bounds and the arguments requests are drawn from                        *)
(***************************************************************************)
\* At most this many view files are kept in the store
MaxFiles == 2

EmptyFilters == <<>>

FilterArgs == {EmptyFilters, ("filter" :> PyStr(STR_ALL)) @@ ("type" :> PyNone)}

\* "", " f" and "f/g"
FolderArgs == {<<>>, <<" ", "f">>, <<"f", "/", "g">>}

\* "v", "v " and "f"
ViewArgs == {<<"v">>, <<"v", " ">>, <<"f">>}

ValidPayloads ==
    {("folder" :> fo) @@ ("view" :> vi) @@ ("filters" :> fi) :
        fo \in FolderArgs, vi \in ViewArgs, fi \in FilterArgs}

\* Payloads whose key set is not {folder, view, filters}
InvalidPayloads ==
    { ("folder" :> <<"f">>) @@ ("view" :> <<"v">>),
      ("folder" :> <<"f">>) @@ ("view" :> <<"v">>) @@ ("filters" :> EmptyFilters)
          @@ ("extra" :> PyNone),
      ("folder" :> <<"f">>) @@ ("view" :> <<"v">>) @@ ("extra" :> PyNone) }

SavePayloads == ValidPayloads \cup InvalidPayloads

\* "", "v", "f" and "f/v"
ReadArgs == {<<>>, <<"v">>, <<"f">>, <<"f", "/", "v">>}

\* "v", "f", "f/v", "f/g" and "x"
SrcArgs == {<<"v">>, <<"f">>, <<"f", "/", "v">>, <<"f", "/", "g">>, <<"x">>}

\* "", "f", "f/g" and "x"
DestArgs == {<<>>, <<"f">>, <<"f", "/", "g">>, <<"x">>}

\* delete_test_results_view is given a view file or a folder below the root
DeleteArgs == {<<"v">> \o JSON_EXT, <<"f">>, <<"f", "/", "g">>, <<"x">>}

(***************************************************************************)
(* Actions of the view store                                               *)
(***************************************************************************)
CreateView ==
    \E p \in SavePayloads :
        LET r == create_test_results_view(FS, p)
        IN /\ Cardinality(DOMAIN r.fs.files) <= MaxFiles
           /\ Served("create_test_results_view", p, r)

UpdateView ==
    \E p \in SavePayloads :
        LET r == update_test_results_view(FS, p)
        IN /\ Cardinality(DOMAIN r.fs.files) <= MaxFiles
           /\ Served("update_test_results_view", p, r)

ReadView ==
    \E view \in ReadArgs, raise_except \in BOOLEAN :
        Served("read_view_data", <<view, raise_except>>,
               read_view_data(FS, view, raise_except))

MoveView ==
    \E src \in SrcArgs, dest \in DestArgs :
        Served("move_test_results_view", <<src, dest>>,
               move_test_results_view(FS, src, dest))

DeleteView ==
    \E path \in DeleteArgs :
        Served("delete_test_results_view", path, delete_test_results_view(FS, path))

Init ==
    /\ dirs = EmptyFS.dirs
    /\ files = EmptyFS.files
    /\ index = <<>>
    /\ last = NoOp

Next == CreateView \/ UpdateView \/ ReadView \/ MoveView \/ DeleteView

Spec == Init /\ [][Next]_vars

(***************************************************************************)
(* The report service: the hits the index holds, the requests and the      *)
(* behaviours of the search service get_test_case_data is run against      *)
(***************************************************************************)
\* At most this many hits are in the index
MaxDocs == 2

STR_PASSED == <<"p", "a", "s", "s", "e", "d">>

STR_FAILED == <<"F", "A", "I", "L", "E", "D">>

\* type L2ADD, status "passed", a recent jobdate
DOC_PASSED ==
    << <<"type", PyStr(STR_L2ADD)>>, <<"status", PyStr(STR_PASSED)>>,
       <<"jobdate", PyStr(<<"4", "5">>)>> >>

\* A hit carrying job and status, stage, log_uri, an old jobdate and a job
\* attribute; its dict iterates job before status
DOC_JOB_FIRST ==
    << <<"job", PyStr(<<"j", "1">>)>>, <<"status", PyStr(STR_FAILED)>>,
       <<"stage", PyStr(<<"u", "t", "_", "c", "i", "_", "7">>)>>,
       <<"log_uri", PyStr(<<"a", "/", "b">>)>>,
       <<"jobdate", PyStr(<<"1", "0">>)>>,
       <<"job_attrs", PyDict(<< <<"major", PyStr(<<"G", "8">>)>>,
                               <<"job_attrs_kv", PyStr(<<"k">>)>> >>)>> >>

\* The same record, its dict iterating status before job
DOC_STATUS_FIRST ==
    << <<"status", PyStr(STR_FAILED)>>, <<"job", PyStr(<<"j", "1">>)>> >>
    \o SubSeq(DOC_JOB_FIRST, 3, Len(DOC_JOB_FIRST))

\* A hit with no field
DOC_EMPTY == <<>>

\* A hit whose status is null
DOC_NULL_STATUS == << <<"type", PyStr(STR_CPT)>>, <<"status", PyNone>> >>

Docs == {DOC_PASSED, DOC_JOB_FIRST, DOC_STATUS_FIRST, DOC_EMPTY, DOC_NULL_STATUS}

RECURSIVE SeqsUpTo(_, _)
SeqsUpTo(S, n) ==
    IF n = 0 THEN {<<>>}
    ELSE LET shorter == SeqsUpTo(S, n - 1)
         IN shorter \cup {Append(q, x) : q \in shorter, x \in S}

Indexes == SeqsUpTo(Docs, MaxDocs)

FILTER_ALL == "filter" :> PyStr(STR_ALL)

VIEW_F_V == ("folders" :> PyStr(<<"f">>)) @@ ("view_name" :> PyStr(<<"v">>))

Requests ==
    { FILTER_ALL,
      "view_name" :> PyStr(<<"v">>),
      FILTER_ALL @@ VIEW_F_V,
      FILTER_ALL @@ VIEW_F_V @@ ("create_mode" :> PyStr(<<"1">>)),
      FILTER_ALL @@ ("folders" :> PyStr(<<>>)) @@ ("view_name" :> PyStr(<<"f">>))
          @@ ("create_mode" :> PyStr(<<"1">>)),
      FILTER_ALL @@ ("folders" :> PyStr(<<"f">>)),
      FILTER_ALL @@ ("create_mode" :> PyStr(<<"1">>)),
      FILTER_ALL @@ ("type" :> PyStr(STR_CPT)),
      "filter" :> PyStr(<<"d", "a", "y", "s">>),
      ("filter" :> PyStr(<<"d", "a", "y", "s">>)) @@ ("days" :> [type |-> "int", val |-> 7]),
      ("filter" :> PyStr(<<"d", "a", "t", "e">>))
          @@ ("from_date" :> PyStr(<<"0", "5", "T", "0">>))
          @@ ("to_date" :> PyStr(<<"2", "0", "T", "9">>)),
      ("filter" :> PyStr(<<"d", "a", "t", "e">>))
          @@ ("from_date" :> PyStr(<<"0", "5", "T", "0">>)) }

\* A mapping with job and customer attributes, and the mapping of a service
\* that has no index cirrus, and one without the "mappings" level
MAPPING_ATTRS ==
    [cirrus |-> [mappings |-> [testinfo |-> [properties |->
        [job_attrs |-> [properties |-> <<"major", "job_attrs_kv">>],
         cust_attrs |-> [properties |-> <<"cust_attrs_kv", "owner">>]]]]]]

MAPPING_NO_INDEX == <<>>

MAPPING_MALFORMED == [cirrus |-> [settings |-> <<>>]]

\* The behaviours of the search service during one request.  A step the
\* request never reaches because an earlier one failed is left at its
\* default, and failures of the later steps are combined with the full
\* mapping only.
Envs ==
    {e \in [mapping_raises : BOOLEAN,
            mapping : {MAPPING_ATTRS, MAPPING_NO_INDEX, MAPPING_MALFORMED},
            search_raises : BOOLEAN,
            agg : {"ok", "raises", "no aggregations"},
            scroll_fail : 0..(MaxDocs + 1)] :
        LET later_at_default == e.mapping_raises \/ e.mapping # MAPPING_ATTRS
        IN /\ e.mapping_raises => e.mapping = MAPPING_NO_INDEX
           /\ later_at_default => ~e.search_raises
           /\ (later_at_default \/ e.search_raises) => e.agg = "ok"
           /\ (later_at_default \/ e.search_raises \/ e.agg # "ok")
                 => e.scroll_fail = 0}

\* The service did all it was asked
ServiceCorrect(e) ==
    /\ ~e.mapping_raises
    /\ e.mapping # MAPPING_MALFORMED
    /\ ~e.search_raises
    /\ e.agg = "ok"
    /\ e.scroll_fail = 0

\* The views the report service's store is given
ReportViewPayloads ==
    { ("folder" :> <<"f">>) @@ ("view" :> <<"v">>) @@ ("filters" :> EmptyFilters) }

\* The request gets as far as the first call of the search service
reaches_service(fs, data) ==
    /\ view_check(fs, data).exc = "none"
    /\ get_date_filters(data, report_defaults(data)).exc = "none"

\* request.json (line 195): a report request arrives, and with it what the
\* search service will do while it is served.  Requests are served one at a
\* time.
Pending(l) == l.op = "request"

ReportRequest ==
    /\ ~Pending(last)
    /\ \E data \in Requests :
          \E env \in IF reaches_service(FS, data) THEN Envs ELSE {NoEnv} :
              last' = [NoOp EXCEPT !.op = "request", !.args = data, !.env = env]
    /\ UNCHANGED <<dirs, files, index>>

GetTestCaseData ==
    /\ Pending(last)
    /\ LET r == get_test_case_data(FS, index, last.args, last.env)
       IN last' = [op |-> "get_test_case_data", args |-> last.args,
                   exc |-> r.exc, msg |-> r.msg, named |-> {}, ret |-> NoRet,
                   payload |-> r.payload, calls |-> r.calls, env |-> last.env]
    /\ UNCHANGED <<dirs, files, index>>

SaveReportView ==
    /\ ~Pending(last)
    /\ \E p \in ReportViewPayloads :
          Served("create_test_results_view", p, create_test_results_view(FS, p))

InitReport ==
    /\ dirs = EmptyFS.dirs
    /\ files = EmptyFS.files
    /\ index \in Indexes
    /\ last = NoOp

NextReport == ReportRequest \/ GetTestCaseData \/ SaveReportView

SpecReport == InitReport /\ [][NextReport]_vars

(***************************************************************************)
(* Claims about the view store (checked under Spec)                        *)
(***************************************************************************)
IsSave(l) == l.op \in {"create_test_results_view", "update_test_results_view"}

SchemaMismatch(l) ==
    l.exc = "Exception" /\ l.msg \in {"missing needed info", "additional uneeded info"}

\* The (folder, view) identity of a valid payload, as read_view_data is given it
ViewIdentity(p) == os_path_join(strip(p["folder"]), strip(p["view"]))

StoreUnchanged == dirs' = dirs /\ files' = files

\* C5, first half: create on an identity whose view file exists fails with the
\* duplicate-view IOError of line 410 and changes nothing.
C5_CreateStep ==
    (/\ last'.op = "create_test_results_view"
     /\ last'.args \in ValidPayloads
     /\ isfile(FS, get_full_path(last'.args)))
    => (last'.exc = "IOError" /\ StoreUnchanged)

\* C5, second half: update on any valid payload, stored before or not,
\* succeeds and the stored filters are the payload's.
C5_UpdateStep ==
    (/\ last'.op = "update_test_results_view"
     /\ last'.args \in ValidPayloads)
    => (/\ last'.exc = "none"
        /\ isfile(FS', get_full_path(last'.args))
        /\ json_load(files'[get_full_path(last'.args)]) = last'.args["filters"])

\* C5: where a view file exists at (folder, trimmed name), create fails with
\* the DuplicateView error and leaves the stored filters unchanged, update
\* succeeds and overwrites them; update succeeds also for a view not stored yet.
C5_DuplicateCreateUpdate == [][C5_CreateStep /\ C5_UpdateStep]_vars

\* The part of C5 the code keeps: a duplicate create fails (with whatever
\* error) and changes nothing, and update overwrites.
C5_DuplicateCreateFailsSomehow ==
    [][ /\ C5_UpdateStep
        /\ (/\ last'.op = "create_test_results_view"
            /\ last'.args \in ValidPayloads
            /\ isfile(FS, get_full_path(last'.args)))
           => (last'.exc # "none" /\ StoreUnchanged) ]_vars

\* The view a read is asked for after create(p): folder/view as the payload
\* spells them, or with both trimmed as create resolves them
SpelledIdentity(p) == os_path_join(p["folder"], p["view"])

C6_StepWith(read_identity(_)) ==
    (/\ last'.op = "create_test_results_view"
     /\ last'.args \in ValidPayloads
     /\ ~exists(FS, get_full_path(last'.args)))
    => LET p == last'.args
           full_path == get_full_path(p)
       IN /\ last'.exc = "none"
          /\ isdir(FS', Parent(full_path))
          /\ read_view_data(FS', read_identity(p), TRUE) = Returns(FS', p["filters"])
          /\ \A Q \in DOMAIN files :
                Q # full_path => (Q \in DOMAIN files' /\ files'[Q] = files[Q])

C7_StepWith(named_keys(_)) ==
    IsSave(last') =>
        LET p == last'.args
        IN /\ (DOMAIN p = save_view_structure) <=> ~SchemaMismatch(last')
           /\ SchemaMismatch(last') =>
                 (last'.named = named_keys(p) /\ StoreUnchanged)

AllWrongKeys(p) ==
    (save_view_structure \ DOMAIN p) \cup (DOMAIN p \ save_view_structure)

FirstWrongKeys(p) ==
    IF save_view_structure \ DOMAIN p # {}
    THEN save_view_structure \ DOMAIN p
    ELSE DOMAIN p \ save_view_structure

\* C7 as stated: validation passes exactly on the key set {folder, view,
\* filters}; a failure names every missing and every extraneous key, and
\* create/update then leave the file system alone.
C7_ValidateNamesAllKeys == [][C7_StepWith(AllWrongKeys)]_vars

\* C7 amended: a failure names the missing keys when there are any, and the
\* extraneous keys only when no key is missing.
C7_ValidateNamesMissingFirst == [][C7_StepWith(FirstWrongKeys)]_vars

\* C7 witness: a payload with a missing and an extraneous key was refused.
C7_Witness ==
    /\ IsSave(last)
    /\ SchemaMismatch(last)
    /\ save_view_structure \ DOMAIN last.args # {}
    /\ DOMAIN last.args \ save_view_structure # {}

IsMove(l) == l.op = "move_test_results_view"

NotFound(l, what) == l.exc = "IOError" /\ l.msg = what

\* The entry X was relocated into the folder D under its own name: a view
\* file keeps its filters, a folder keeps everything below it, and nothing
\* is left at the old place
MovedInto(X, D) ==
    LET T == Append(D, Basename(X))
    IN /\ last'.exc = "none"
       /\ ~exists(FS', X)
       /\ IF isfile(FS, X)
          THEN isfile(FS', T) /\ files'[T] = files[X]
          ELSE /\ isdir(FS', T)
               /\ \A F \in Subtree(FS, X).files :
                     /\ isfile(FS', Rebase(F, X, T))
                     /\ files'[Rebase(F, X, T)] = files[F]

\* C8 as stated, for a move request <<src, dest>>
C8_StepAsStated ==
    IsMove(last') =>
        LET S == under_root(last'.args[1])
            SJ == under_root(last'.args[1] \o JSON_EXT)
            D == under_root(last'.args[2])
        IN /\ IF ~exists(FS, D)
              THEN NotFound(last', "Destination path does not exist")
              ELSE IF isfile(FS, SJ) THEN MovedInto(SJ, D)
              ELSE IF exists(FS, S) THEN MovedInto(S, D)
              ELSE NotFound(last', "Source path does not exist")
           /\ last'.exc # "none" => StoreUnchanged

\* C8 amended: nothing is moved when dest already holds an entry of the
\* source's name, or when dest is the source folder or lies inside it
C8_StepAmended ==
    IsMove(last') =>
        LET S == under_root(last'.args[1])
            SJ == under_root(last'.args[1] \o JSON_EXT)
            D == under_root(last'.args[2])
            X == IF isfile(FS, SJ) THEN SJ ELSE S
        IN /\ IF ~exists(FS, D)
              THEN NotFound(last', "Destination path does not exist")
              ELSE IF ~exists(FS, X)
              THEN NotFound(last', "Source path does not exist")
              ELSE IF X = D
              THEN last'.exc = "none" /\ StoreUnchanged
              ELSE IF exists(FS, Append(D, Basename(X))) \/ IsPrefix(X, D)
              THEN last'.exc = "shutil.Error"
              ELSE MovedInto(X, D)
           /\ last'.exc # "none" => StoreUnchanged

\* C8: move(src, dest) fails with NotFound when dest is missing; else the
\* view file src.json (also when a folder src exists), else the folder src, is
\* moved into dest and is gone from its old place; else NotFound.  A failing
\* move changes nothing.
C8_MoveAsStated == [][C8_StepAsStated]_vars

\* C8 amended (dest a folder): as C8, except that the move fails with
\* shutil.Error, changing nothing, when dest already holds an entry with the
\* source's name or lies inside the source folder, and returns without moving
\* anything when dest is the source folder itself.
C8_MoveUnlessNameTaken == [][C8_StepAmended]_vars

\* C8 witness: move("f", "f/g") with both a folder f and a view f.json
\* stored moved the view file, and the folder f is still in place.
C8_Witness ==
    /\ IsMove(last)
    /\ last.args = << <<"f">>, <<"f", "/", "g">> >>
    /\ last.exc = "none"
    /\ isfile(FS, <<(<<"f">>), (<<"g">>), <<"f">> \o JSON_EXT>>)
    /\ ~isfile(FS, << <<"f">> \o JSON_EXT >>)
    /\ isdir(FS, << <<"f">> >>)

(***************************************************************************)
(* Claims about the report (checked under SpecReport)                      *)
(***************************************************************************)
IsReport(l) == l.op = "get_test_case_data"

\* get_test_case_data returned its final_dict
Returned(l) == IsReport(l) /\ l.exc = "none"

\* The except clause of line 306 was taken
CutShort(l) == Returned(l) /\ l.msg = "Fetch testcase results failed"

\* C1: get_test_case_data never raises to its caller, whatever the request,
\* the view store and the search service do.
C1_NeverRaises == IsReport(last) => last.exc = "none"

ColumnLists ==
    {"job_attributes_col", "cirrus_attributes_col", "testcase_attributes_col",
     "testattr"}

\* C2: every payload returned holds retain (the request), reporttype, count,
\* testinfo, the column lists and ring_data; when assembly was cut short by a
\* failure, count and ring_data hold their zero/empty defaults.
C2_PayloadKeys ==
    Returned(last) =>
        /\ {"retain", "reporttype", "count", "testinfo", "ring_data"} \cup ColumnLists
              \subseteq DOMAIN last.payload
        /\ last.payload["retain"] = last.args
        /\ CutShort(last) =>
              (last.payload["count"] = 0 /\ last.payload["ring_data"] = <<>>)

\* status.capitalize() of every record of the index
capitalised_statuses ==
    [i \in 1..Len(index) |-> capitalize(source_get(index[i], "status", PyNone).val)]

\* C3: for {"filter": "all"} and a search service that does as asked, over
\* records that carry a status: count is the number of records, row i has job
\* and stage_status equal to the capitalised status of record i and test_type
\* equal to its type, ring_data["stage_status"] maps each capitalised status
\* to the number of records with it, and ring_data has no key "jobstatus".
C3_EndToEnd ==
    (/\ IsReport(last)
     /\ last.args = FILTER_ALL
     /\ ServiceCorrect(last.env)
     /\ \A i \in 1..Len(index) : is_str(source_get(index[i], "status", PyNone)))
    => /\ last.exc = "none"
       /\ "ring_data" \in DOMAIN last.payload
       /\ LET rows == last.payload["testinfo"]
              ring_data == last.payload["ring_data"]
              status == capitalised_statuses
          IN /\ last.payload["count"] = Len(index)
             /\ Len(rows) = Len(index)
             /\ \A i \in 1..Len(index) :
                   /\ rows[i]["job"] = PyStr(status[i])
                   /\ "stage_status" \in DOMAIN rows[i]
                   /\ rows[i]["stage_status"] = PyStr(status[i])
                   /\ source_has(index[i], "type") =>
                         /\ "test_type" \in DOMAIN rows[i]
                         /\ rows[i]["test_type"] = source_get(index[i], "type", PyNone)
             /\ "jobstatus" \notin DOMAIN ring_data
             /\ "stage_status" \in DOMAIN ring_data
             /\ ring_data["stage_status"] =
                   [s \in Range(status) |->
                       Cardinality({i \in 1..Len(index) : status[i] = s})]

\* The view file create_mode is to look for: view_name under folders
view_file_of(data) ==
    under_root(os_path_join(data["folders"].val, data["view_name"].val) \o JSON_EXT)

\* C4: a request with folders, view_name and create_mode is aborted with the
\* naming-conflict failure, before any search-service call, when the view
\* store holds a view of that name under that folder; otherwise the check
\* passes and the report is assembled.
C4_CreateModeCheck ==
    (/\ IsReport(last)
     /\ {"folders", "view_name", "create_mode"} \subseteq DOMAIN last.args)
    => IF isfile(FS, view_file_of(last.args))
       THEN /\ last.exc = "Exception"
            /\ last.msg = "View name provided is duplicate"
            /\ last.calls = <<>>
       ELSE /\ last.exc = "none"
            /\ (ServiceCorrect(last.env) /\ ~CutShort(last))
                  => "ring_data" \in DOMAIN last.payload

\* The source fields row shaping files under another column
RenamedColumns ==
    {<<"stage", "stage_stdout">>, <<"status", "stage_status">>, <<"type", "test_type">>}

\* C9: all rows of a payload have the same column keys; a record without
\* stage, status or type has "NA" under stage_stdout, stage_status, test_type.
C9_SameColumns ==
    Returned(last) =>
        LET rows == last.payload["testinfo"]
        IN /\ \A i, j \in 1..Len(rows) : DOMAIN rows[i] = DOMAIN rows[j]
           /\ Len(rows) = Len(index) =>
                 \A i \in 1..Len(rows) : \A c \in RenamedColumns :
                     ~source_has(index[i], c[1]) =>
                         /\ c[2] \in DOMAIN rows[i]
                         /\ rows[i][c[2]] = PyStr(STR_NA)

\* C10: two records with the same fields and values, iterated in different
\* orders, yield the same row.
C10_OrderIndependent ==
    Returned(last) =>
        LET rows == last.payload["testinfo"]
        IN Len(rows) = Len(index) =>
              \A i, j \in 1..Len(rows) :
                  Range(index[i]) = Range(index[j]) => rows[i] = rows[j]

\* C11: in every payload returned, count is the number of rows of testinfo,
\* also when a failure cut assembly short after some rows were shaped.
C11_CountIsRows ==
    Returned(last) => last.payload["count"] = Len(last.payload["testinfo"])

=============================================================================
